---- MODULE Spec2Model ----
(***************************************************************************)
(* Auth engine of DataMind: app/engines/auth/service.py together with the  *)
(* cipher of app/core/security.py and the authorization gate of            *)
(* app/api/query.py.  One action per public operation of the service; the  *)
(* wall clock and the process environment are the two outside inputs.      *)
(***************************************************************************)
EXTENDS Integers, Sequences, FiniteSets, TLC

\* ------------------------------------------------------------------ bounds
MaxTime == 2          \* the clock runs over 0..MaxTime seconds
MaxSessions == 2      \* session records kept in the two stores together
MaxThreads == 3       \* request threads that run a call step by step

\* --------------------------------------------------------- program constants
JWT_SECRET == "dev-secret-change-me"
JWT_ALGORITHM == "HS256"
JWT_EXP_DELTA_SECONDS == 1

\* ------------------------------------------------------------ Python values
None == "<None>"                 \* None in a slot that otherwise holds a str
NoneDict == [none |-> TRUE]      \* None in a slot that otherwise holds a dict

\* dict.get(k): the value, or None for a missing key
Get(d, k) == IF k \in DOMAIN d THEN d[k] ELSE None

\* d[k] = v on a dict: insert or overwrite
Put(d, k, v) == [x \in DOMAIN d \cup {k} |-> IF x = k THEN v ELSE d[x]]

\* d.pop(k, None) / DEL k: remove if present
Pop(d, k) == [x \in DOMAIN d \ {k} |-> d[x]]

EmptyDict == [x \in {} |-> None]

\* ------------------------------------------------------------------ inputs
Emails == {"a@x.com"}
Passwords == {"pw1", "pw2"}
UserIds == {"u1"}                \* user ids create_session is called with
UuidPool == <<"u1", "u2", "u3">> \* successive values of uuid.uuid4()
Salts == {"salt1"}               \* values the hash's random salt can take
DbPasswords == {"s3cret"}

\* request bodies of /session/set-db: complete descriptors and two incomplete
FullDbInfo(p) ==
  [db_type |-> "postgres", host |-> "h", port |-> "5432", username |-> "u",
   password |-> p, database |-> "d"]
DbInfos ==
  {FullDbInfo(p) : p \in DbPasswords}
    \cup {[db_type |-> "postgres", host |-> "h", port |-> "5432",
           username |-> "u", database |-> "d"],
          [db_type |-> "postgres", password |-> "s3cret"]}

\* base64.urlsafe_b64encode(b): the text is written "b64:" followed by b
urlsafe_b64encode(b) == "b64:" \o b

\* byte strings that keys are made of
KeyBytes ==
  {"fernet-key-A-of-32-random-bytes!",     \* 32 bytes
   "raw-secret-key-of-32-bytes-long!",     \* 32 bytes
   "test-secret-key-32bytes!!test"}        \* 29 bytes

\* values of APP_ENCRYPTION_KEY: unset, a urlsafe-base64 32-byte Fernet key,
\* a raw 32-byte string, and the key of the test suite (base64 of 29 bytes)
EncKeyConfigs ==
  {"",
   urlsafe_b64encode("fernet-key-A-of-32-random-bytes!"),
   "raw-secret-key-of-32-bytes-long!",
   urlsafe_b64encode("test-secret-key-32bytes!!test")}

VARIABLES
  users,      \* auth_users table: email -> [id, email, password_hash]
  sessions,   \* _sessions: token -> session dict (in-process map)
  rstore,     \* Redis keyspace session:<token> -> [val, expire_at]
  redisOn,    \* _redis is not None (decided at import time)
  encKey,     \* os.environ APP_ENCRYPTION_KEY, read at every cipher call
  now,        \* datetime.utcnow() in whole seconds
  last,       \* the last call made and what it returned or raised
  ended,      \* history: tokens whose session a logout has deleted
  threads,    \* per request thread: the call it runs, its locals, its position
  lock,       \* holder of _sessions_lock
  writer,     \* the thread whose write under the lock came last
  twin        \* a second service, on the in-process map, given the same calls

\* what belongs to calls that run step by step
conc == <<threads, lock, writer>>

vars ==
  <<users, sessions, rstore, redisOn, encKey, now, last, ended, conc, twin>>

\* ------------------------------------------------------------ Token Authority
\* HMAC over the payload: whoever holds the secret produces this signature
Sign(secret, payload) ==
  [alg |-> JWT_ALGORITHM, secret |-> secret, sub |-> payload.sub,
   email |-> payload.email, iat |-> payload.iat, exp |-> payload.exp]

\* jwt.encode(payload, secret): the payload, readable, plus its signature
jwt_encode(payload, secret) ==
  [sub |-> payload.sub, email |-> payload.email, iat |-> payload.iat,
   exp |-> payload.exp, sig |-> Sign(secret, payload)]

\* jwt.decode called with options={"verify_exp": False}
jwt_decode_NoExpiry(token, secret, t) ==
  IF token.sig # Sign(secret, token) THEN [ok |-> FALSE, error |-> "JWTError"]
  ELSE [ok |-> TRUE, error |-> None]

\* jwt.decode: signature check, then the exp claim against the clock
\* (jose raises ExpiredSignatureError, a JWTError, when exp < now)
jwt_decode(token, secret, t) ==
  IF token.sig # Sign(secret, token) THEN [ok |-> FALSE, error |-> "JWTError"]
  ELSE IF token.exp < t THEN [ok |-> FALSE, error |-> "ExpiredSignatureError"]
  ELSE [ok |-> TRUE, error |-> None]

verify_token(token) ==
  IF jwt_decode(token, JWT_SECRET, now).ok
    THEN [ok |-> TRUE, error |-> None]
    ELSE [ok |-> FALSE, error |-> "invalid token"]

\* the payload authenticate_user and create_session build at time t
Payload(user_id, email, t) ==
  [sub |-> user_id, email |-> email, iat |-> t,
   exp |-> t + JWT_EXP_DELTA_SECONDS]

\* bearer tokens a caller can present: everything the service can issue
\* within the clock's range, and one with a later expiry written into it and
\* signed with another secret
ForgedToken ==
  jwt_encode([sub |-> "u1", email |-> "a@x.com", iat |-> 0, exp |-> 99],
             "attacker-secret")
Tokens ==
  {jwt_encode(Payload(u, e, t), JWT_SECRET) :
      u \in UserIds, e \in Emails, t \in 0..MaxTime}
    \cup {ForgedToken}

\* ---------------------------------------------------------- Credential Store
\* pbkdf2_sha256 with a random salt: one-way, so only verify can use it
_hash_password(password, salt) == [salt |-> salt, digest |-> <<salt, password>>]

_verify_password(password, hash) == _hash_password(password, hash.salt) = hash

\* ------------------------------------------------------------- Secret Cipher
NoFernet == [none |-> TRUE]

\* Fernet(k): k must be the urlsafe base64 of exactly 32 bytes
Fernet(k) ==
  IF \E b \in KeyBytes : k = urlsafe_b64encode(b) /\ Len(b) = 32
    THEN [key |-> CHOOSE b \in KeyBytes : k = urlsafe_b64encode(b)]
    ELSE NoFernet

_get_fernet(key) ==
  IF key = "" THEN NoFernet
  ELSE IF Fernet(key) # NoFernet THEN Fernet(key)
  ELSE Fernet(urlsafe_b64encode(key))

\* f.encrypt: only the holder of the same key reads the plaintext back
encrypt_value(plaintext, key) ==
  LET f == _get_fernet(key) IN
  IF f = NoFernet
    THEN [ok |-> FALSE, error |-> "RuntimeError", value |-> NoneDict]
    ELSE [ok |-> TRUE, error |-> None,
          value |-> [fernet |-> f.key, data |-> plaintext]]

\* a decryption that does not authenticate the ciphertext against the key
decrypt_value_AnyKey(ciphertext, key) ==
  LET f == _get_fernet(key) IN
  IF f = NoFernet
    THEN [ok |-> FALSE, error |-> "RuntimeError", value |-> None]
    ELSE [ok |-> TRUE, error |-> None, value |-> ciphertext.data]

decrypt_value(ciphertext, key) ==
  LET f == _get_fernet(key) IN
  IF f = NoFernet
    THEN [ok |-> FALSE, error |-> "RuntimeError", value |-> None]
  ELSE IF f.key # ciphertext.fernet
    THEN [ok |-> FALSE, error |-> "invalid encrypted value", value |-> None]
  ELSE [ok |-> TRUE, error |-> None, value |-> ciphertext.data]

\* ------------------------------------------------------------- Session Store
json_dumps(obj) == [json |-> obj]
json_loads(text) == text.json

\* _redis.get(key) found something: Redis has not yet dropped the key
redis_has(token) == token \in DOMAIN rstore

\* _redis.set(key, val, ex=seconds)
redis_set(token, val, ex) ==
  Put(rstore, token, [val |-> val, expire_at |-> now + ex])

\* the in-process branch of _get_session, on the map it is given
mem_get(map, token) ==
  IF token \in DOMAIN map
    THEN [ok |-> TRUE, error |-> None, s |-> map[token]]
    ELSE [ok |-> FALSE, error |-> "invalid or expired session token",
          s |-> NoneDict]

_get_session(token) ==
  IF redisOn
    THEN IF redis_has(token)
           THEN [ok |-> TRUE, error |-> None,
                 s |-> json_loads(rstore[token].val)]
           ELSE [ok |-> FALSE, error |-> "invalid or expired session token",
                 s |-> NoneDict]
    ELSE mem_get(sessions, token)

\* ----------------------------------------------------------- Session Service
NoToken == NoneDict

\* request threads of the server's pool; 0 stands for no thread
Threads == 1..MaxThreads
NoThread == 0

\* a thread that runs no call
IdleThread ==
  [pc |-> "idle", op |-> None, token |-> NoToken, db_info |-> NoneDict,
   seen |-> NoneDict, stored |-> NoneDict, cur |-> NoneDict, ok |-> FALSE,
   late |-> FALSE]

\* what the caller of an operation observes
Call(op, token, arg, ok, error, value) ==
  [op |-> op, token |-> token, arg |-> arg, ok |-> ok, error |-> error,
   value |-> value]

Init ==
  /\ users = EmptyDict
  /\ sessions = EmptyDict
  /\ rstore = EmptyDict
  /\ redisOn \in BOOLEAN
  /\ encKey \in EncKeyConfigs
  /\ now = 0
  /\ last = Call("import", NoToken, NoneDict, TRUE, None, NoneDict)
  /\ ended = {}
  /\ threads = [th \in Threads |-> IdleThread]
  /\ lock = NoThread
  /\ writer = NoThread
  /\ twin = [sessions |-> EmptyDict,
             last |-> Call("import", NoToken, NoneDict, TRUE, None, NoneDict)]

\* an insert that replaces the row of a stored email
insert_user_Upsert(table, row) ==
  [ok |-> TRUE, error |-> None, table |-> Put(table, row.email, row)]

\* session.execute(insert(...)): the unique index on email decides
insert_user(table, row) ==
  IF row.email \in DOMAIN table
    THEN [ok |-> FALSE, error |-> "IntegrityError", table |-> table]
    ELSE [ok |-> TRUE, error |-> None, table |-> Put(table, row.email, row)]

\* str(uuid.uuid4()): an id no stored row has
uuid4 == UuidPool[Cardinality(DOMAIN users) + 1]

create_user(email, password) ==
  \E salt \in Salts :
    LET user_id == uuid4
        password_hash == _hash_password(password, salt)
        r == insert_user(users, [id |-> user_id, email |-> email,
                                 password_hash |-> password_hash])
        arg == [email |-> email, password |-> password]
    IN /\ users' = r.table
       /\ last' = IF r.ok
                    THEN Call("create_user", NoToken, arg, TRUE, None,
                              [message |-> "account created",
                               user_id |-> user_id])
                    ELSE Call("create_user", NoToken, arg, FALSE,
                              "user already exists", NoneDict)
       /\ UNCHANGED <<sessions, rstore, redisOn, conc, encKey, now>>

\* the stores still take a new record (the model keeps MaxSessions at most)
HasRoom ==
  Cardinality(DOMAIN sessions) + Cardinality(DOMAIN rstore) < MaxSessions

\* the session context both authenticate_user and create_session build
session_obj(user_id, email) ==
  [user_id |-> user_id, email |-> email, created_at |-> now,
   active_db |-> NoneDict, last_query |-> None]

\* an error that tells the missing row from the failed verify
credentials_error_Telling(row_found) ==
  IF row_found THEN "invalid credentials" ELSE "unknown user"

\* the error authenticate_user raises for a missing row / a failed verify
credentials_error(row_found) == "invalid credentials"

authenticate_user(email, password) ==
  IF email \notin DOMAIN users
    THEN /\ last' = Call("authenticate_user", NoToken, [email |-> email],
                          FALSE, credentials_error(FALSE), NoneDict)
         /\ UNCHANGED <<users, sessions, rstore, redisOn, conc, encKey, now>>
  ELSE IF ~_verify_password(password, users[email].password_hash)
    THEN /\ last' = Call("authenticate_user", NoToken, [email |-> email],
                          FALSE, credentials_error(TRUE), NoneDict)
         /\ UNCHANGED <<users, sessions, rstore, redisOn, conc, encKey, now>>
  ELSE LET user_id == users[email].id
           token == jwt_encode(Payload(user_id, email, now), JWT_SECRET)
       IN /\ token \in DOMAIN sessions \/ HasRoom
          /\ sessions' = Put(sessions, token, session_obj(user_id, email))
          /\ last' = Call("authenticate_user", token, [email |-> email],
                           TRUE, None,
                           [access_token |-> token, token_type |-> "bearer"])
          /\ UNCHANGED <<users, rstore, redisOn, conc, encKey, now>>

create_session(user_id, email) ==
  LET token == jwt_encode(Payload(user_id, email, now), JWT_SECRET) IN
  /\ IF redisOn
       THEN /\ redis_has(token) \/ HasRoom
            /\ rstore' = redis_set(token,
                                    json_dumps(session_obj(user_id, email)),
                                    JWT_EXP_DELTA_SECONDS)
            /\ UNCHANGED sessions
       ELSE /\ token \in DOMAIN sessions \/ HasRoom
            /\ sessions' = Put(sessions, token, session_obj(user_id, email))
            /\ UNCHANGED rstore
  /\ last' = Call("create_session", token, [email |-> email], TRUE, None,
                   NoneDict)
  /\ UNCHANGED <<users, redisOn, conc, encKey, now>>

\* a filter that drops the plaintext key only
safe_active_db_KeepsEnc(active_db) ==
  IF active_db # NoneDict
    THEN [k \in DOMAIN active_db \ {"password"} |-> active_db[k]]
    ELSE active_db

\* get_session_context's filter of the active_db dict
safe_active_db(active_db) ==
  IF active_db # NoneDict
    THEN [k \in DOMAIN active_db \ {"password", "password_enc"} |->
            active_db[k]]
    ELSE active_db

\* get_session_context after its lookup g
session_context(g) ==
  IF ~g.ok THEN [ok |-> FALSE, error |-> g.error, value |-> NoneDict]
  ELSE [ok |-> TRUE, error |-> None,
        value |-> [user_id |-> g.s.user_id, email |-> g.s.email,
                   active_db |-> safe_active_db(g.s.active_db),
                   last_query |-> Get(g.s, "last_query")]]

get_session_context(token) == session_context(_get_session(token))

\* get_db_credentials after its lookup g, with the key configuration it reads
db_credentials(g, key) ==
  LET \* s.get("active_db") or {}
      active_db == IF g.s.active_db = NoneDict THEN EmptyDict
                   ELSE g.s.active_db
      dec == decrypt_value(active_db["password_enc"], key)
      creds(pw) ==
        [db_type |-> Get(active_db, "db_type"), host |-> Get(active_db, "host"),
         port |-> Get(active_db, "port"),
         username |-> Get(active_db, "username"), password |-> pw,
         database |-> Get(active_db, "database")]
  IN
  IF ~g.ok THEN [ok |-> FALSE, error |-> g.error, value |-> NoneDict]
  ELSE IF "password_enc" \in DOMAIN active_db
    THEN IF ~dec.ok
           THEN [ok |-> FALSE, error |-> "failed to decrypt stored password",
                 value |-> NoneDict]
           ELSE [ok |-> TRUE, error |-> None, value |-> creds(dec.value)]
    ELSE [ok |-> TRUE, error |-> None,
          value |-> creds(Get(active_db, "password"))]

get_db_credentials(token) == db_credentials(_get_session(token), encKey)

\* a gate that hands the caller the message of the check that failed
require_auth_PassesDetail(token) ==
  IF ~verify_token(token).ok
    THEN [ok |-> FALSE, error |-> verify_token(token).error,
          value |-> NoneDict]
  ELSE IF ~get_session_context(token).ok
    THEN [ok |-> FALSE, error |-> get_session_context(token).error,
          value |-> NoneDict]
  ELSE get_session_context(token)

\* app/api/query.py: the gate in front of every other engine
require_auth(token) ==
  IF ~verify_token(token).ok \/ ~get_session_context(token).ok
    THEN [ok |-> FALSE, error |-> "401 invalid or expired token",
          value |-> NoneDict]
    ELSE get_session_context(token)

expected == {"db_type", "host", "port", "username", "password", "database"}

\* a descriptor that keeps the plaintext next to the ciphertext
stored_db_Both(db_info, key) ==
  LET password == Get(db_info, "password")
      e == encrypt_value(password, key)
      dsn == <<db_info["db_type"], "://", db_info["username"], "@",
               db_info["host"], ":", db_info["port"], "/",
               db_info["database"]>>
  IN IF password # None /\ e.ok
       THEN [db_type |-> db_info["db_type"], dsn |-> dsn,
             password_enc |-> e.value, password |-> password]
       ELSE [db_type |-> db_info["db_type"], dsn |-> dsn,
             password |-> password]

\* the dict set_active_database puts under "active_db"
stored_db(db_info, key) ==
  LET password == Get(db_info, "password")
      e == encrypt_value(password, key)
      enc == IF password # None /\ e.ok THEN e.value ELSE NoneDict
      dsn == <<db_info["db_type"], "://", db_info["username"], "@",
               db_info["host"], ":", db_info["port"], "/",
               db_info["database"]>>
  IN IF enc # NoneDict
       THEN [db_type |-> db_info["db_type"], dsn |-> dsn,
             password_enc |-> enc]
       ELSE [db_type |-> db_info["db_type"], dsn |-> dsn,
             password |-> Get(db_info, "password")]

\* a failure path that also drops the session it was called for
SetDbFails_DropsSession(token, error) ==
  /\ last' = Call("set_active_database", token, NoneDict, FALSE, error,
                   NoneDict)
  /\ sessions' = Pop(sessions, token)
  /\ rstore' = Pop(rstore, token)
  /\ UNCHANGED <<users, redisOn, conc, encKey, now>>

\* set_active_database raising ValueError: nothing is written
SetDbFails(token, error) ==
  /\ last' = Call("set_active_database", token, NoneDict, FALSE, error,
                   NoneDict)
  /\ UNCHANGED <<users, sessions, rstore, redisOn, conc, encKey, now>>

set_active_database(token, db_info) ==
  LET g == _get_session(token)
      stored == stored_db(db_info, encKey)
  IN
  IF ~(expected \subseteq DOMAIN db_info)
    THEN SetDbFails(token, "invalid db_info; missing fields")
  ELSE IF ~g.ok THEN SetDbFails(token, g.error)
  ELSE IF redisOn /\ ~redis_has(token)
    THEN SetDbFails(token, "invalid or expired session token")
  ELSE
    /\ IF redisOn
         THEN /\ rstore' = redis_set(token,
                   json_dumps([json_loads(rstore[token].val)
                                 EXCEPT !.active_db = stored]),
                   JWT_EXP_DELTA_SECONDS)
              /\ UNCHANGED sessions
         ELSE /\ sessions' = [sessions EXCEPT ![token].active_db = stored]
              /\ UNCHANGED rstore
    /\ last' = Call("set_active_database", token, db_info, TRUE, None,
                     [message |-> "database connected"])
    /\ UNCHANGED <<users, redisOn, conc, encKey, now>>

\* a logout that always clears the in-process map, as authenticate_user
\* always writes it
logout_MemoryOnly(token) ==
  /\ sessions' = Pop(sessions, token)
  /\ last' = Call("logout", token, NoneDict, TRUE, None,
                   [message |-> "logged out"])
  /\ UNCHANGED <<users, rstore, redisOn, conc, encKey, now>>

logout(token) ==
  /\ IF redisOn
       THEN rstore' = Pop(rstore, token) /\ UNCHANGED sessions
       ELSE sessions' = Pop(sessions, token) /\ UNCHANGED rstore
  /\ last' = Call("logout", token, NoneDict, TRUE, None,
                   [message |-> "logged out"])
  /\ UNCHANGED <<users, redisOn, conc, encKey, now>>

\* callers of the read-only operations: /session/me, the credential
\* consumer, and every route that depends on require_auth
SessionMe(token) ==
  /\ last' = LET r == get_session_context(token) IN
             Call("get_session_context", token, NoneDict, r.ok, r.error,
                  r.value)
  /\ UNCHANGED <<users, sessions, rstore, redisOn, conc, encKey, now>>

GetDbCredentials(token) ==
  /\ last' = LET r == get_db_credentials(token) IN
             Call("get_db_credentials", token, NoneDict, r.ok, r.error, r.value)
  /\ UNCHANGED <<users, sessions, rstore, redisOn, conc, encKey, now>>

QueryStub(token) ==
  /\ last' = LET r == require_auth(token) IN
             Call("require_auth", token, NoneDict, r.ok, r.error, r.value)
  /\ UNCHANGED <<users, sessions, rstore, redisOn, conc, encKey, now>>

\* Redis drops a key at some instant of the second its time-to-live ends in
\* (it was set at some instant of second expire_at - ex)
RedisExpire(token) ==
  /\ token \in DOMAIN rstore
  /\ rstore[token].expire_at <= now
  /\ rstore' = Pop(rstore, token)
  /\ last' = Call("expire", NoToken, NoneDict, TRUE, None, NoneDict)
  /\ UNCHANGED <<users, sessions, redisOn, conc, encKey, now>>

\* the clock reaches the next second; no key outlives the second it ends in
Tick ==
  /\ now < MaxTime
  /\ \A k \in DOMAIN rstore : now < rstore[k].expire_at
  /\ now' = now + 1
  /\ last' = Call("tick", NoToken, NoneDict, TRUE, None, NoneDict)
  /\ UNCHANGED <<users, sessions, rstore, redisOn, conc, encKey>>

\* the deployment changes APP_ENCRYPTION_KEY (monkeypatch.setenv in the tests)
SetEncryptionKey(key) ==
  /\ key # encKey
  /\ encKey' = key
  /\ last' = Call("setenv", NoToken, NoneDict, TRUE, None, NoneDict)
  /\ UNCHANGED <<users, sessions, rstore, redisOn, conc, now>>

\* bearer tokens a caller holds: the ones with a record in the store the
\* service reads, and the one of the previous call
Held ==
  (IF redisOn THEN DOMAIN rstore ELSE DOMAIN sessions)
    \cup ({last.token} \ {NoToken, ForgedToken})

\* what arrives at the routes that check a bearer token: also tokens that
\* were never issued
Presented == Held \cup {ForgedToken}

\* what only the specifications that follow a history or a twin change
hist == <<twin, ended>>

Next ==
  \/ \E e \in Emails, p \in Passwords : create_user(e, p) /\ UNCHANGED hist
  \/ \E e \in Emails, p \in Passwords :
       authenticate_user(e, p) /\ UNCHANGED hist
  \/ \E u \in UserIds, e \in Emails : create_session(u, e) /\ UNCHANGED hist
  \/ \E t \in Held, d \in DbInfos :
       set_active_database(t, d) /\ UNCHANGED hist
  \/ \E t \in Held : logout(t) /\ UNCHANGED hist
  \/ \E t \in Presented : SessionMe(t) /\ UNCHANGED hist
  \/ \E t \in Held : GetDbCredentials(t) /\ UNCHANGED hist
  \/ \E t \in Presented : QueryStub(t) /\ UNCHANGED hist
  \/ \E t \in DOMAIN rstore : RedisExpire(t) /\ UNCHANGED hist
  \/ Tick /\ UNCHANGED hist
  \/ \E k \in EncKeyConfigs : SetEncryptionKey(k) /\ UNCHANGED hist

Spec == Init /\ [][Next]_vars

\* the same calls, with the tokens remembered whose session a logout ended
LifeNext ==
  \/ \E e \in Emails, p \in Passwords : create_user(e, p) /\ UNCHANGED hist
  \/ \E e \in Emails, p \in Passwords :
       authenticate_user(e, p) /\ UNCHANGED hist
  \/ \E u \in UserIds, e \in Emails : create_session(u, e) /\ UNCHANGED hist
  \/ \E t \in Held, d \in DbInfos :
       set_active_database(t, d) /\ UNCHANGED hist
  \/ \E t \in Held :
       /\ logout(t)
       /\ ended' = IF _get_session(t).ok THEN ended \cup {t} ELSE ended
       /\ UNCHANGED twin
  \/ \E t \in Presented : SessionMe(t) /\ UNCHANGED hist
  \/ \E t \in Held : GetDbCredentials(t) /\ UNCHANGED hist
  \/ \E t \in Presented : QueryStub(t) /\ UNCHANGED hist
  \/ \E t \in DOMAIN rstore : RedisExpire(t) /\ UNCHANGED hist
  \/ Tick /\ UNCHANGED hist
  \/ \E k \in EncKeyConfigs : SetEncryptionKey(k) /\ UNCHANGED hist

LifeSpec == Init /\ [][LifeNext]_vars

\* ------------------------------------------------ calls that run step by step
\* an assignment that keeps a descriptor that is already there
write_active_db_IfUnset(s, stored) ==
  IF s.active_db = NoneDict THEN [s EXCEPT !.active_db = stored] ELSE s

\* s["active_db"] = stored: one item assignment on the session dict
write_active_db(s, stored) == [s EXCEPT !.active_db = stored]

\* request bodies the concurrent calls carry: two complete, one incomplete
ConcDbInfos ==
  {FullDbInfo(p) : p \in DbPasswords}
    \cup {[FullDbInfo(p) EXCEPT !.database = "d2"] : p \in DbPasswords}
    \cup {[db_type |-> "postgres", password |-> "s3cret"]}

\* bearer tokens the concurrent callers hold: every token handed out
Issued == Held \cup ended

\* sessions are created before the concurrent calls start
Setup(user_id, email) ==
  /\ \A th \in Threads : threads[th].pc = "idle"
  /\ create_session(user_id, email)
  /\ UNCHANGED hist

\* the call raises ValueError(error) and the thread is done
Raise(th, error) ==
  /\ threads' = [threads EXCEPT ![th].pc = "done", ![th].ok = FALSE]
  /\ last' = Call(threads[th].op, threads[th].token, NoneDict, FALSE, error,
                   NoneDict)

\* set_active_database is entered: the validation of the request body
CallSetActiveDatabase(th, token, db_info) ==
  /\ threads[th].pc = "idle"
  /\ IF ~(expected \subseteq DOMAIN db_info)
       THEN /\ threads' = [threads EXCEPT ![th] =
                 [IdleThread EXCEPT !.pc = "done",
                                    !.op = "set_active_database",
                                    !.token = token, !.db_info = db_info]]
            /\ last' = Call("set_active_database", token, NoneDict, FALSE,
                             "invalid db_info; missing fields", NoneDict)
       ELSE /\ threads' = [threads EXCEPT ![th] =
                 [IdleThread EXCEPT !.pc = "get_session",
                                    !.op = "set_active_database",
                                    !.token = token, !.db_info = db_info]]
            /\ UNCHANGED last
  /\ UNCHANGED <<twin, users, sessions, rstore, redisOn, encKey, now, ended, lock,
                 writer>>

\* logout is entered
CallLogout(th, token) ==
  /\ threads[th].pc = "idle"
  /\ threads' = [threads EXCEPT ![th] =
       [IdleThread EXCEPT !.pc = IF redisOn THEN "delete" ELSE "pop",
                          !.op = "logout", !.token = token]]
  /\ UNCHANGED <<twin, users, sessions, rstore, redisOn, encKey, now, last, ended,
                 lock, writer>>

\* with _sessions_lock: the thread waits until the lock is free and takes it
AcquireLock(th) ==
  /\ ~redisOn
  /\ threads[th].pc \in {"get_session", "store", "pop"}
  /\ lock = NoThread
  /\ lock' = th
  /\ UNCHANGED <<twin, users, sessions, rstore, redisOn, encKey, now, last, ended,
                 threads, writer>>

\* s = _get_session(token), then the descriptor to store is built
GetSession(th) ==
  LET t == threads[th]
      g == _get_session(t.token)
  IN
  /\ t.pc = "get_session"
  /\ redisOn \/ lock = th
  /\ lock' = IF redisOn THEN lock ELSE NoThread
  /\ IF ~g.ok
       THEN Raise(th, g.error)
       ELSE /\ threads' = [threads EXCEPT
                 ![th].pc = IF redisOn THEN "refetch" ELSE "store",
                 ![th].seen = g.s.active_db,
                 ![th].stored = stored_db(t.db_info, encKey)]
            /\ UNCHANGED last
  /\ UNCHANGED <<twin, users, sessions, rstore, redisOn, encKey, now, ended,
                 writer>>

\* cur = _redis.get(...): the second read of the record
Refetch(th) ==
  LET t == threads[th] IN
  /\ redisOn /\ t.pc = "refetch"
  /\ IF ~redis_has(t.token)
       THEN Raise(th, "invalid or expired session token")
       ELSE /\ threads' = [threads EXCEPT
                 ![th].pc = "set",
                 ![th].cur = json_loads(rstore[t.token].val)]
            /\ UNCHANGED last
  /\ UNCHANGED <<twin, users, sessions, rstore, redisOn, encKey, now, ended, lock,
                 writer>>

\* cur_obj["active_db"] = stored; _redis.set(...); return
RedisSet(th) ==
  LET t == threads[th] IN
  /\ redisOn /\ t.pc = "set"
  /\ rstore' = redis_set(t.token,
                         json_dumps(write_active_db(t.cur, t.stored)),
                         JWT_EXP_DELTA_SECONDS)
  /\ threads' = [threads EXCEPT ![th].pc = "done", ![th].ok = TRUE,
                                ![th].late = ~redis_has(t.token)]
  /\ last' = Call("set_active_database", t.token, t.db_info, TRUE, None,
                   [message |-> "database connected"])
  /\ UNCHANGED <<twin, users, sessions, redisOn, encKey, now, ended, lock, writer>>

\* with _sessions_lock: s["active_db"] = stored; return.  The dict s is the
\* one the lookup returned: it is in the map unless a logout has popped it
LockedWrite(th) ==
  LET t == threads[th] IN
  /\ ~redisOn /\ t.pc = "store" /\ lock = th
  /\ sessions' = IF t.token \in DOMAIN sessions
                   THEN [sessions EXCEPT
                           ![t.token] = write_active_db(@, t.stored)]
                   ELSE sessions
  /\ lock' = NoThread
  /\ writer' = th
  /\ threads' = [threads EXCEPT ![th].pc = "done", ![th].ok = TRUE,
                                ![th].late = t.token \notin DOMAIN sessions]
  /\ last' = Call("set_active_database", t.token, t.db_info, TRUE, None,
                   [message |-> "database connected"])
  /\ UNCHANGED <<twin, users, rstore, redisOn, encKey, now, ended>>

\* with _sessions_lock: _sessions.pop(token, None); return
LogoutPop(th) ==
  LET t == threads[th] IN
  /\ ~redisOn /\ t.pc = "pop" /\ lock = th
  /\ sessions' = Pop(sessions, t.token)
  /\ ended' = IF _get_session(t.token).ok THEN ended \cup {t.token}
              ELSE ended
  /\ lock' = NoThread
  /\ threads' = [threads EXCEPT ![th].pc = "done", ![th].ok = TRUE]
  /\ last' = Call("logout", t.token, NoneDict, TRUE, None,
                   [message |-> "logged out"])
  /\ UNCHANGED <<twin, users, rstore, redisOn, encKey, now, writer>>

\* _redis.delete(...); return
LogoutDelete(th) ==
  LET t == threads[th] IN
  /\ redisOn /\ t.pc = "delete"
  /\ rstore' = Pop(rstore, t.token)
  /\ ended' = IF _get_session(t.token).ok THEN ended \cup {t.token}
              ELSE ended
  /\ threads' = [threads EXCEPT ![th].pc = "done", ![th].ok = TRUE]
  /\ last' = Call("logout", t.token, NoneDict, TRUE, None,
                   [message |-> "logged out"])
  /\ UNCHANGED <<twin, users, sessions, redisOn, encKey, now, lock, writer>>

ConcNext ==
  \/ \E u \in UserIds, e \in Emails : Setup(u, e)
  \/ \E th \in Threads, t \in Issued, d \in ConcDbInfos :
       CallSetActiveDatabase(th, t, d)
  \/ \E th \in Threads, t \in Issued : CallLogout(th, t)
  \/ \E th \in Threads : AcquireLock(th)
  \/ \E th \in Threads : GetSession(th)
  \/ \E th \in Threads : Refetch(th)
  \/ \E th \in Threads : RedisSet(th)
  \/ \E th \in Threads : LockedWrite(th)
  \/ \E th \in Threads : LogoutPop(th)
  \/ \E th \in Threads : LogoutDelete(th)

ConcSpec == Init /\ [][ConcNext]_vars

\* --------------------------------------- two services given the same calls
\* The variables above are the service that has the external cache; twin is
\* a service on the in-process map.  Both get every call with the same
\* arguments at the same clock reading, over equal users tables.

\* what the twin's caller observes
TwinCall(r) ==
  Call(last'.op, last'.token, last'.arg, r.ok, r.error, r.value)

\* set_active_database on the in-process map: the new map and the result
mem_set_active_database(map, token, db_info, key) ==
  LET g == mem_get(map, token) IN
  IF ~(expected \subseteq DOMAIN db_info)
    THEN [map |-> map, ok |-> FALSE,
          error |-> "invalid db_info; missing fields", value |-> NoneDict]
  ELSE IF ~g.ok
    THEN [map |-> map, ok |-> FALSE, error |-> g.error, value |-> NoneDict]
  ELSE [map |-> [map EXCEPT
                   ![token] = write_active_db(@, stored_db(db_info, key))],
        ok |-> TRUE, error |-> None,
        value |-> [message |-> "database connected"]]

PairInit == Init /\ redisOn

\* bearer tokens the caller of the two services holds
PairHeld == Held \cup DOMAIN twin.sessions

\* signup fills the users table both services read
PairCreateUser(email, password) ==
  /\ create_user(email, password)
  /\ UNCHANGED ended
  /\ twin' = [twin EXCEPT !.last = last']

\* authenticate_user has no backend branch: same result, and the twin's
\* session goes to its in-process map
PairAuthenticate(email, password) ==
  /\ authenticate_user(email, password)
  /\ UNCHANGED ended
  /\ twin' = [sessions |->
                IF last'.ok
                  THEN Put(twin.sessions, last'.token,
                           session_obj(users[email].id, email))
                  ELSE twin.sessions,
              last |-> last']

PairCreateSession(user_id, email) ==
  /\ create_session(user_id, email)
  /\ UNCHANGED ended
  /\ twin' = [sessions |-> Put(twin.sessions, last'.token,
                               session_obj(user_id, email)),
              last |-> last']

PairSessionMe(token) ==
  /\ SessionMe(token)
  /\ UNCHANGED ended
  /\ twin' = [twin EXCEPT
       !.last = TwinCall(session_context(mem_get(twin.sessions, token)))]

PairGetDbCredentials(token) ==
  /\ GetDbCredentials(token)
  /\ UNCHANGED ended
  /\ twin' = [twin EXCEPT
       !.last = TwinCall(db_credentials(mem_get(twin.sessions, token),
                                        encKey))]

PairSetActiveDatabase(token, db_info) ==
  /\ set_active_database(token, db_info)
  /\ UNCHANGED ended
  /\ LET r == mem_set_active_database(twin.sessions, token, db_info, encKey)
     IN twin' = [sessions |-> r.map,
                 last |-> Call("set_active_database", token,
                               IF r.ok THEN db_info ELSE NoneDict,
                               r.ok, r.error, r.value)]

PairLogout(token) ==
  /\ logout(token)
  /\ UNCHANGED ended
  /\ twin' = [sessions |-> Pop(twin.sessions, token), last |-> last']

PairNext ==
  \/ \E e \in Emails, p \in Passwords : PairCreateUser(e, p)
  \/ \E e \in Emails, p \in Passwords : PairAuthenticate(e, p)
  \/ \E u \in UserIds, e \in Emails : PairCreateSession(u, e)
  \/ \E t \in PairHeld, d \in DbInfos : PairSetActiveDatabase(t, d)
  \/ \E t \in PairHeld : PairLogout(t)
  \/ \E t \in PairHeld : PairSessionMe(t)
  \/ \E t \in PairHeld : PairGetDbCredentials(t)

PairSpec == PairInit /\ [][PairNext]_vars

\* ===================================================================== claims
\* C1: a token returned by a successful authenticate_user is accepted by the
\* authorization gate right away (not expired, no logout yet), whichever
\* session backend is in use.
C1_AuthTokenAccepted ==
  (last.op = "authenticate_user" /\ last.ok) => require_auth(last.token).ok

\* the password kept for a token: the plaintext, whichever way it is stored
StoredPassword(token) ==
  LET a == _get_session(token).s.active_db IN
  IF "password_enc" \in DOMAIN a THEN a["password_enc"].data
  ELSE a["password"]

\* a context result shows neither password key nor the password's value
HidesPassword(ctx, pw) ==
  /\ ctx.user_id # pw /\ ctx.email # pw /\ ctx.last_query # pw
  /\ \/ ctx.active_db = NoneDict
     \/ /\ "password" \notin DOMAIN ctx.active_db
        /\ "password_enc" \notin DOMAIN ctx.active_db
        /\ ctx.active_db["db_type"] # pw
        /\ \A i \in DOMAIN ctx.active_db["dsn"] : ctx.active_db["dsn"][i] # pw

\* C2: every result of get_session_context has active_db none or a
\* descriptor without the keys password and password_enc, and no field of
\* the result holds the attached password, in either cipher mode.
C2_ContextHidesPassword ==
  /\ \A t \in Tokens :
       LET r == get_session_context(t) IN
       (r.ok /\ _get_session(t).s.active_db # NoneDict)
         => HidesPassword(r.value, StoredPassword(t))
  /\ (last.op = "get_session_context" /\ last.ok)
       => \/ last.value.active_db = NoneDict
          \/ DOMAIN last.value.active_db = {"db_type", "dsn"}

C2_Witness ==
  /\ last.op = "get_session_context" /\ last.ok
  /\ last.value.active_db # NoneDict
  /\ "password_enc" \in DOMAIN _get_session(last.token).s.active_db

\* C3: once set_active_database(T, d) has succeeded, get_db_credentials(T)
\* returns password = d.password (the key being unchanged) for as long as no
\* set_active_database or logout on T comes in between.
C3_PasswordRoundTrip ==
  [][\A t \in Tokens :
       LET before == get_db_credentials(t)
           had == _get_session(t).ok
                    /\ _get_session(t).s.active_db # NoneDict
       IN
       /\ (last'.op = "set_active_database" /\ last'.ok /\ last'.token = t)
            => (get_db_credentials(t).ok
                  /\ get_db_credentials(t).value.password
                       = last.arg.password)'
       /\ (/\ had /\ before.ok
           /\ ~(last'.op \in {"set_active_database", "logout"}
                  /\ last'.token = t)
           /\ last'.op \notin {"setenv", "expire"})
            => (get_db_credentials(t).ok)'
                 /\ (get_db_credentials(t).value.password)'
                      = before.value.password
  ]_vars

\* C4: after set_active_database(T, d) succeeds, get_db_credentials(T)
\* returns db_type, host, port, username and database as they are in d.
C4_CredentialsWholeDescriptor ==
  (last.op = "set_active_database" /\ last.ok)
    => LET r == get_db_credentials(last.token) IN
       /\ r.ok
       /\ \A f \in {"db_type", "host", "port", "username", "database"} :
            r.value[f] = last.arg[f]

\* C5: the gate rejects, as unauthorized, every token whose exp is earlier
\* than the current time, also when the in-memory map still has its session.
C5_ExpiredTokenRejected ==
  /\ \A t \in Tokens :
       t.exp < now
         => (~require_auth(t).ok
               /\ require_auth(t).error = "401 invalid or expired token")
  /\ (last.op = "require_auth" /\ last.token.exp < now) => ~last.ok

C5_Witness ==
  /\ last.op = "require_auth" /\ ~last.ok
  /\ last.token.exp < now
  /\ ~redisOn /\ last.token \in DOMAIN sessions

\* C6: get_session_context, set_active_database and get_db_credentials fail
\* for a token that does not verify (expired or badly signed), even if a
\* session record is still stored under it.
C6_SessionOpsVerifyToken ==
  /\ \A t \in Tokens :
       ~verify_token(t).ok
         => (~get_session_context(t).ok /\ ~get_db_credentials(t).ok)
  /\ (last.op = "set_active_database" /\ ~verify_token(last.token).ok)
       => ~last.ok

\* C7: logout always returns the same acknowledgement; once it has returned,
\* the gate and get_session_context reject the token, and only a later
\* authenticate_user or create_session makes a token's session readable.
C7_LogoutIdempotent ==
  [][/\ last'.op = "logout"
          => /\ last'.ok /\ last'.value = [message |-> "logged out"]
             /\ (~require_auth(last.token).ok)'
             /\ (~get_session_context(last.token).ok)'
     /\ \A t \in Tokens :
          (~get_session_context(t).ok /\ (get_session_context(t).ok)')
            => (last'.op \in {"authenticate_user", "create_session"}
                  /\ last'.token = t)
  ]_vars

C7_Witness ==
  /\ last.op = "logout" /\ last.ok
  /\ verify_token(last.token).ok
  /\ ~require_auth(last.token).ok

\* C8: create_user with a stored email fails with the conflict error and
\* leaves the users table as it was: the stored password still verifies and
\* the one of the failed signup does not start to.
C8_DuplicateSignupRejected ==
  [][(last'.op = "create_user" /\ last'.arg.email \in DOMAIN users)
       => /\ ~last'.ok /\ last'.error = "user already exists"
          /\ users' = users
          /\ \A p \in Passwords :
               _verify_password(p, users'[last'.arg.email].password_hash)
                 = _verify_password(p, users[last'.arg.email].password_hash)
  ]_vars

C8_Witness ==
  /\ last.op = "create_user" /\ ~last.ok
  /\ last.arg.email \in DOMAIN users
  /\ ~_verify_password(last.arg.password,
                       users[last.arg.email].password_hash)

\* C9: a failed authenticate_user raises one and the same error for an
\* unknown email and for a wrong password, returns no token and leaves both
\* session stores as they were.
C9_FailedLoginGeneric ==
  [][(last'.op = "authenticate_user" /\ ~last'.ok)
       => /\ last'.error = "invalid credentials"
          /\ last'.token = NoToken /\ last'.value = NoneDict
          /\ sessions' = sessions /\ rstore' = rstore
  ]_vars

C9_Witness ==
  /\ last.op = "authenticate_user" /\ ~last.ok
  /\ last.arg.email \in DOMAIN users
  /\ DOMAIN sessions # {}

\* C10: a set_active_database that fails (missing field, or no session behind
\* the token) leaves both session stores exactly as they were.
C10_FailedAttachNoEffect ==
  [][(last'.op = "set_active_database" /\ ~last'.ok)
       => (sessions' = sessions /\ rstore' = rstore)
  ]_vars

C10_Witness ==
  /\ last.op = "set_active_database" /\ ~last.ok
  /\ last.error = "invalid db_info; missing fields"
  /\ _get_session(last.token).ok
  /\ _get_session(last.token).s.active_db # NoneDict

\* C11: the gate gives one and the same unauthorized outcome for a badly
\* signed token, an expired token and a valid token without a session: any
\* two rejected tokens get equal results, with the fixed status and detail.
C11_GateOneUnauthorized ==
  /\ \A t1, t2 \in Tokens :
       (~require_auth(t1).ok /\ ~require_auth(t2).ok)
         => require_auth(t1) = require_auth(t2)
  /\ \A t \in Tokens :
       ~require_auth(t).ok
         => require_auth(t) = [ok |-> FALSE,
                               error |-> "401 invalid or expired token",
                               value |-> NoneDict]
  /\ (last.op = "require_auth" /\ ~last.ok)
       => (last.error = "401 invalid or expired token"
             /\ last.value = NoneDict)

C11_Witness ==
  /\ last.op = "require_auth" /\ ~last.ok
  /\ verify_token(last.token).ok /\ ~_get_session(last.token).ok
  /\ jwt_decode(ForgedToken, JWT_SECRET, now).error = "JWTError"
  /\ \E t \in Tokens :
       jwt_decode(t, JWT_SECRET, now).error = "ExpiredSignatureError"

\* C12: a token's session only moves forward: it comes into being only by
\* authenticate_user or create_session and then has active_db and last_query
\* none; while it exists an attached data source never goes back to none;
\* and after a logout has ended it, it never exists again.
C12_SessionForwardOnly ==
  [][\A t \in Tokens :
       LET g == _get_session(t) IN
       /\ (~g.ok /\ (_get_session(t).ok)')
            => /\ last'.op \in {"authenticate_user", "create_session"}
               /\ last'.token = t
               /\ (_get_session(t).s.active_db)' = NoneDict
               /\ (_get_session(t).s.last_query)' = None
       /\ (g.ok /\ g.s.active_db # NoneDict /\ (_get_session(t).ok)')
            => (_get_session(t).s.active_db)' # NoneDict
       /\ t \in ended' => (~_get_session(t).ok)'
  ]_vars

\* every session dict kept in either store
StoredSessions ==
  {sessions[t] : t \in DOMAIN sessions}
    \cup {json_loads(rstore[t].val) : t \in DOMAIN rstore}

\* C13: every stored active_db descriptor has exactly one of the keys
\* password_enc and password, whatever was attached before and whatever the
\* cipher configuration was at each attachment.
C13_OnePasswordRepresentation ==
  \A s \in StoredSessions :
    s.active_db # NoneDict
      => ("password_enc" \in DOMAIN s.active_db)
           # ("password" \in DOMAIN s.active_db)

C13_Witness ==
  /\ \E s \in StoredSessions :
       s.active_db # NoneDict /\ "password_enc" \in DOMAIN s.active_db
  /\ \E s \in StoredSessions :
       s.active_db # NoneDict /\ "password" \in DOMAIN s.active_db
  /\ last.op = "set_active_database" /\ last.ok

\* C14: with any non-empty APP_ENCRYPTION_KEY the cipher is available:
\* encrypt_value succeeds and a successful set_active_database has stored
\* the password under password_enc.
C14_CipherAvailable ==
  encKey # ""
    => /\ \A p \in DbPasswords : encrypt_value(p, encKey).ok
       /\ (last.op = "set_active_database" /\ last.ok)
            => "password_enc"
                 \in DOMAIN _get_session(last.token).s.active_db

\* C15: when the stored ciphertext cannot be decrypted with the current key
\* configuration (no key, or another key), get_db_credentials fails with the
\* decryption error and returns no record; a record it does return carries
\* the attached password.
C15_DecryptionFailureIsError ==
  \A t \in Tokens :
    (_get_session(t).ok
       /\ _get_session(t).s.active_db # NoneDict
       /\ "password_enc" \in DOMAIN _get_session(t).s.active_db)
      => LET c == _get_session(t).s.active_db["password_enc"]
             r == get_db_credentials(t)
         IN /\ (_get_fernet(encKey) = NoFernet
                  \/ _get_fernet(encKey) # [key |-> c.fernet])
                 => r = [ok |-> FALSE,
                         error |-> "failed to decrypt stored password",
                         value |-> NoneDict]
            /\ r.ok => r.value.password = c.data

C15_Witness ==
  /\ last.op = "get_db_credentials" /\ ~last.ok
  /\ last.error = "failed to decrypt stored password"
  /\ _get_fernet(encKey) # NoFernet

\* C16: get_db_credentials on a live session with no data source attached
\* fails instead of returning a credentials record.
C16_NoDataSourceIsError ==
  /\ \A t \in Tokens :
       (_get_session(t).ok /\ _get_session(t).s.active_db = NoneDict)
         => ~get_db_credentials(t).ok
  /\ (last.op = "get_db_credentials" /\ last.ok)
       => last.value.db_type # None

\* C17: session records live only in the backend chosen at import time: the
\* in-process map stays empty when the external cache is configured, and the
\* cache stays empty when it is not.
C17_OneBackend ==
  /\ redisOn => DOMAIN sessions = {}
  /\ ~redisOn => DOMAIN rstore = {}

\* C18: the two backends are interchangeable: given the same calls of
\* authenticate_user, create_session, get_session_context,
\* set_active_database, get_db_credentials and logout, with no time-to-live
\* running out, the service on the in-process map and the one on the
\* external cache return the same result for every call.
C18_BackendsInterchangeable ==
  last.op \in {"authenticate_user", "create_session", "get_session_context",
               "set_active_database", "get_db_credentials", "logout"}
    => /\ twin.last.op = last.op /\ twin.last.token = last.token
       /\ twin.last.ok = last.ok
       /\ twin.last.error = last.error
       /\ twin.last.value = last.value

\* every thread is outside a call
AllReturned == \A th \in Threads : threads[th].pc \in {"idle", "done"}

\* C19: in-memory backend, concurrent set_active_database calls and nothing
\* else: once all have returned, the session's active_db is the complete
\* descriptor of the call whose write under the lock came last and the other
\* fields of the session are as created.
C19_NoLostUpdate ==
  (/\ ~redisOn /\ AllReturned /\ writer # NoThread
   /\ \A th \in Threads : threads[th].op # "logout")
    => LET w == threads[writer]
           t == w.token
       IN /\ t \in DOMAIN sessions
          /\ sessions[t].active_db = stored_db(w.db_info, encKey)
          /\ DOMAIN sessions[t].active_db
               \in {{"db_type", "dsn", "password_enc"},
                    {"db_type", "dsn", "password"}}
          /\ sessions[t].user_id = t.sub /\ sessions[t].email = t.email
          /\ sessions[t].created_at = t.iat
          /\ sessions[t].last_query = None

C19_Witness ==
  /\ ~redisOn /\ AllReturned /\ writer # NoThread
  /\ \E a, b \in Threads :
       /\ a # b /\ writer = b
       /\ threads[a].op = "set_active_database" /\ threads[a].ok
       /\ threads[b].op = "set_active_database" /\ threads[b].ok
       /\ threads[a].token = threads[b].token
       /\ threads[a].db_info # threads[b].db_info
       /\ threads[a].seen = NoneDict /\ threads[b].seen = NoneDict

\* C20: set_active_database(T, d) concurrent with logout(T): once the logout
\* has returned and no call on T is running, T's session is not readable,
\* and no set_active_database has returned its acknowledgement for a write
\* made after the session was deleted.
C20_LogoutWins ==
  /\ \A t \in Tokens :
       (/\ \E th \in Threads :
             /\ threads[th].op = "logout" /\ threads[th].token = t
             /\ threads[th].pc = "done"
        /\ \A th \in Threads :
             threads[th].token = t => threads[th].pc = "done")
         => ~get_session_context(t).ok
  /\ \A th \in Threads :
       (/\ threads[th].op = "set_active_database"
        /\ threads[th].pc = "done" /\ threads[th].ok)
         => ~threads[th].late

\* C21: on the external cache a record is never readable after its token's
\* exp: the instant Redis drops the record at is never later than exp, also
\* after set_active_database calls made while the token is alive.
C21_RecordExpiresWithToken ==
  \A t \in DOMAIN rstore :
    /\ rstore[t].expire_at <= t.exp
    /\ ~(t.exp < now)

\* the record kept under a token in each of the two stores, if any
Stored(t) ==
  [mem |-> IF t \in DOMAIN sessions THEN sessions[t] ELSE NoneDict,
   red |-> IF t \in DOMAIN rstore THEN rstore[t] ELSE NoneDict]

\* C22: set_active_database(T, d), logout(T) and a login that returns T
\* leave the session of every other token as it was; a successful
\* set_active_database changes only active_db of T's session; and an
\* authenticate_user never changes a session that already exists.
C22_OtherSessionsUntouched ==
  [][/\ \A t \in Tokens :
          (/\ last'.op \in {"set_active_database", "logout",
                            "authenticate_user", "create_session"}
           /\ last'.token # t)
            => Stored(t)' = Stored(t)
     /\ \A t \in Tokens :
          (last'.op = "set_active_database" /\ last'.ok /\ last'.token = t)
            => (_get_session(t).s)'
                 = [_get_session(t).s EXCEPT
                      !.active_db = (_get_session(t).s.active_db)']
     /\ (last'.op = "authenticate_user" /\ last'.ok)
          => \A t \in Tokens :
               /\ t \in DOMAIN sessions => sessions'[t] = sessions[t]
               /\ t \in DOMAIN rstore => rstore'[t] = rstore[t]
  ]_vars

====
